---------------------------- MODULE Spec2Model ----------------------------
(***************************************************************************)
(* A model of the GitHub organization accessibility-issue scanner          *)
(* (gather-accessibility-issues): the paged fetcher fetchAllPages, the     *)
(* criteria extractor findWcagScInText and the orchestrator                *)
(* gatherAccessibilityIssues, with the remote API as an abstract provider  *)
(* of paged listings.                                                      *)
(*                                                                         *)
(* Representation.  A JavaScript string is the sequence of its characters  *)
(* (one-character TLA+ strings).  null is the one-element sequence Null,   *)
(* whose element is no character, so it differs from every string.  The    *)
(* items of a listing are references (natural-number keys) into the        *)
(* provider's objects; RepoOf, IssueOf and CommentOf give an object's      *)
(* fields.                                                                 *)
(***************************************************************************)
EXTENDS Integers, Sequences, FiniteSets, TLC

(***************************************************************************)
(* Characters and strings                                                  *)
(***************************************************************************)
Null == << "null" >>

UpperLetters ==
    << "A", "B", "C", "D", "E", "F", "G", "H", "I", "J", "K", "L", "M",
       "N", "O", "P", "Q", "R", "S", "T", "U", "V", "W", "X", "Y", "Z" >>

LowerLetters ==
    << "a", "b", "c", "d", "e", "f", "g", "h", "i", "j", "k", "l", "m",
       "n", "o", "p", "q", "r", "s", "t", "u", "v", "w", "x", "y", "z" >>

Range(s) == { s[i] : i \in DOMAIN s }

Digits == { "0", "1", "2", "3", "4", "5", "6", "7", "8", "9" }

\* The characters of the class [0-9\.]
DigitsAndDot == Digits \cup { "." }

\* The characters \s matches (those that occur in the texts of the model)
Whitespace == { " ", "\t", "\n" }

\* The characters \w matches: the complement is where \b finds a boundary
WordChars == Range(UpperLetters) \cup Range(LowerLetters) \cup Digits \cup { "_" }

IndexIn(s, c) == CHOOSE i \in DOMAIN s : s[i] = c

\* String.prototype.toLowerCase, one character
LowerChar(c) ==
    IF c \in Range(UpperLetters) THEN LowerLetters[IndexIn(UpperLetters, c)] ELSE c

\* String.prototype.toUpperCase, one character
UpperChar(c) ==
    IF c \in Range(LowerLetters) THEN UpperLetters[IndexIn(LowerLetters, c)] ELSE c

toLowerCase(s) == [ i \in DOMAIN s |-> LowerChar(s[i]) ]

toUpperCase(s) == [ i \in DOMAIN s |-> UpperChar(s[i]) ]

\* String.prototype.includes: needle occurs in s as a contiguous substring
includes(s, needle) ==
    \E i \in 1 .. (Len(s) - Len(needle) + 1) :
        SubSeq(s, i, i + Len(needle) - 1) = needle

\* Array.prototype.includes
arrayIncludes(arr, x) == \E i \in DOMAIN arr : arr[i] = x

\* The index after the longest run of characters of class cls that starts at i
RunEnd(s, i, cls) ==
    CHOOSE j \in i .. (Len(s) + 1) :
        /\ \A k \in i .. (j - 1) : s[k] \in cls
        /\ j = Len(s) + 1 \/ s[j] \notin cls

\* .replace(/\s+/g, ' '): every run of whitespace becomes one space
RECURSIVE CollapseWhitespace(_)
CollapseWhitespace(s) ==
    IF s = << >> THEN << >>
    ELSE IF s[1] \in Whitespace
         THEN << " " >> \o CollapseWhitespace(SubSeq(s, RunEnd(s, 1, Whitespace), Len(s)))
         ELSE << s[1] >> \o CollapseWhitespace(Tail(s))

\* String.prototype.trim
trim(s) ==
    IF \A i \in DOMAIN s : s[i] \in Whitespace THEN << >>
    ELSE LET first == CHOOSE i \in DOMAIN s :
                          s[i] \notin Whitespace /\ \A k \in 1 .. (i - 1) : s[k] \in Whitespace
             last  == CHOOSE i \in DOMAIN s :
                          s[i] \notin Whitespace /\ \A k \in (i + 1) .. Len(s) : s[k] \in Whitespace
         IN  SubSeq(s, first, last)

\* Array.prototype.join
RECURSIVE join(_, _)
join(arr, sep) ==
    IF arr = << >> THEN << >>
    ELSE IF Len(arr) = 1 THEN arr[1]
    ELSE arr[1] \o sep \o join(Tail(arr), sep)

\* Dedup with the spread of the Set left out: the concatenated array as it is
Dedup_Concatenated(arr) == arr

\* [...new Set(arr)]: the first occurrence of every element, in order
RECURSIVE Dedup(_)
Dedup(arr) ==
    IF arr = << >> THEN << >>
    ELSE LET front == Dedup(SubSeq(arr, 1, Len(arr) - 1))
             x     == arr[Len(arr)]
         IN  IF arrayIncludes(front, x) THEN front ELSE Append(front, x)

\* The decimal digits of a natural number, as template literals print it
RECURSIVE NumberToString(_)
NumberToString(n) ==
    LET d == << "0", "1", "2", "3", "4", "5", "6", "7", "8", "9" >>[(n % 10) + 1]
    IN  IF n < 10 THEN << d >> ELSE NumberToString(n \div 10) \o << d >>

(***************************************************************************)
(* WCAG_PATTERNS and findWcagScInText                                      *)
(***************************************************************************)
\* The pieces of a pattern, each taking the index i a match has reached (0: the
\* match has failed) to the index after the piece (0 if the piece fails).  The
\* classes that follow one another in WCAG_PATTERNS are disjoint, so the longest
\* run is the only run a backtracking matcher can settle on.

\* A literal, compared case-insensitively (lit is given in lower case)
Literal(s, i, lit) ==
    IF /\ i # 0
       /\ i + Len(lit) - 1 <= Len(s)
       /\ \A k \in 1 .. Len(lit) : LowerChar(s[i + k - 1]) = lit[k]
    THEN i + Len(lit) ELSE 0

\* The end j of the longest run from i, cut to at most hi characters; 0 below lo
Clamp(i, j, lo, hi) ==
    IF j - i < lo THEN 0 ELSE IF j - i > hi THEN i + hi ELSE j

\* cls{lo,hi}, greedy
Repeat(s, i, cls, lo, hi) ==
    IF i = 0 THEN 0 ELSE Clamp(i, RunEnd(s, i, cls), lo, hi)

IsWordCharAt(s, k) == k \in DOMAIN s /\ s[k] \in WordChars

\* \b: exactly one of the characters before and at i is a word character
WordBoundary(s, i) ==
    IF i # 0 /\ IsWordCharAt(s, i - 1) # IsWordCharAt(s, i) THEN i ELSE 0

\* /WCAG\s*([0-9\.]+)\s*(A{1,3})/gi anchored at i: the index after the match, 0 if none
MatchWcagLevel(s, i) ==
    Repeat(s,
           Repeat(s,
                  Repeat(s,
                         Repeat(s, Literal(s, i, << "w", "c", "a", "g" >>),
                                Whitespace, 0, Len(s)),
                         DigitsAndDot, 1, Len(s)),
                  Whitespace, 0, Len(s)),
           { "A", "a" }, 1, 3)

\* /SC\s*([0-9\.]+)/gi anchored at i
MatchSc(s, i) ==
    Repeat(s,
           Repeat(s, Literal(s, i, << "s", "c" >>), Whitespace, 0, Len(s)),
           DigitsAndDot, 1, Len(s))

\* MatchTriple with ^ and $ in place of the two \b: the triple must be the whole text
MatchTriple_WholeText(s, i) ==
    IF i # 1 THEN 0
    ELSE Clamp(1,
               Repeat(s,
                      Literal(s,
                              Repeat(s,
                                     Literal(s, Repeat(s, i, Digits, 1, Len(s)), << "." >>),
                                     Digits, 1, Len(s)),
                              << "." >>),
                      Digits, 1, Len(s)),
               Len(s), Len(s))

\* /\b([0-9]+\.[0-9]+\.[0-9]+)\b/g anchored at i
MatchTriple(s, i) ==
    WordBoundary(s,
        Repeat(s,
               Literal(s,
                       Repeat(s,
                              Literal(s,
                                      Repeat(s, WordBoundary(s, i), Digits, 1, Len(s)),
                                      << "." >>),
                              Digits, 1, Len(s)),
                       << "." >>),
               Digits, 1, Len(s)))

\* /AA/gi anchored at i
MatchAA(s, i) == Literal(s, i, << "a", "a" >>)

\* /A/gi anchored at i
MatchA(s, i) == Literal(s, i, << "a" >>)

\* The patterns of WCAG_PATTERNS, by position in the array
WCAG_PATTERNS == 1 .. 5

MatchAt(p, s, i) ==
    CASE p = 1 -> MatchWcagLevel(s, i)
      [] p = 2 -> MatchSc(s, i)
      [] p = 3 -> MatchTriple(s, i)
      [] p = 4 -> MatchAA(s, i)
      [] p = 5 -> MatchA(s, i)

\* The leftmost index from which pattern p matches, searching from index from; 0 if none
RECURSIVE Leftmost(_, _, _)
Leftmost(p, s, from) ==
    IF from > Len(s) THEN 0
    ELSE IF MatchAt(p, s, from) # 0 THEN from
    ELSE Leftmost(p, s, from + 1)

\* The result of exec when the leftmost match starts at i and ends before e
ExecResult(s, i, e) ==
    IF i = 0 THEN [ match |-> Null, lastIndex |-> 0 ]
    ELSE [ match |-> SubSeq(s, i, e - 1), lastIndex |-> e - 1 ]

ExecFrom(p, s, i) == ExecResult(s, i, IF i = 0 THEN 0 ELSE MatchAt(p, s, i))

\* RegExp.prototype.exec of a global pattern: the search starts at lastIndex
\* (0-based); a match sets lastIndex to the index after it, a failure resets
\* lastIndex to 0 and returns null
exec(p, s, lastIndex) == ExecFrom(p, s, Leftmost(p, s, lastIndex + 1))

\* match[0].toUpperCase().replace(/\s+/g, ' ').trim()
NormalizeMatch(m) == trim(CollapseWhitespace(toUpperCase(m)))

\* Set.prototype.add on a set kept in insertion order
SetAdd(set, x) == IF arrayIncludes(set, x) THEN set ELSE Append(set, x)

\* The while loop of one pattern: exec until null, adding every match to foundSc
RECURSIVE ScanPattern(_, _, _, _)
RECURSIVE ScanStep(_, _, _, _)
ScanStep(p, s, r, foundSc) ==
    IF r.match = Null THEN foundSc
    ELSE ScanPattern(p, s, r.lastIndex,
                     IF r.match # << >> THEN SetAdd(foundSc, NormalizeMatch(r.match))
                     ELSE foundSc)

ScanPattern(p, s, lastIndex, foundSc) == ScanStep(p, s, exec(p, s, lastIndex), foundSc)

\* WCAG_PATTERNS.forEach over the patterns p .. 5, lastIndex reset to 0 first
RECURSIVE ScanPatterns(_, _, _)
ScanPatterns(p, s, foundSc) ==
    IF p \notin WCAG_PATTERNS THEN foundSc
    ELSE ScanPatterns(p + 1, s, ScanPattern(p, s, 0, foundSc))

findWcagScInText(text) ==
    IF text = Null \/ text = << >> THEN << >>
    ELSE ScanPatterns(1, text, << >>)


(***************************************************************************)
(* Bounds of the model                                                     *)
(***************************************************************************)
\* Repositories in a short organization listing
MaxRepos == 2

\* Issues in a short issue listing
MaxIssues == 2

\* Comments in a short comment listing
MaxComments == 2

\* Requests one fetchAllPages call may issue before the model stops following it
MaxRequests == 3

\* Calls of findWcagScInText the model follows one after the other
MaxCalls == 2

(***************************************************************************)
(* Program constants                                                       *)
(***************************************************************************)
\* per_page of every request
PER_PAGE == 100

DEFAULT_PRIMARY_LABEL ==
    << "a", "c", "c", "e", "s", "s", "i", "b", "i", "l", "i", "t", "y" >>

\* The keyword of the text check, 'accessibility'
KEYWORD == << "a", "c", "c", "e", "s", "s", "i", "b", "i", "l", "i", "t", "y" >>

(***************************************************************************)
(* The provider: the objects the remote API serves                         *)
(***************************************************************************)
SeqsUpTo(S, n) == UNION { [ 1 .. m -> S ] : m \in 0 .. n }

\* A listing of n items with the keys from + 1 .. from + n
KeysFrom(from, n) == [ i \in 1 .. n |-> from + i ]

TextMenu == << "M", "e", "n", "u" >>
TextKeywordUpper ==
    << "A", "C", "C", "E", "S", "S", "I", "B", "I", "L", "I", "T", "Y" >>
TextSeeSc == << "s", "e", "e", " ", "S", "C", " ", "1", ".", "4", ".", "3" >>
TextInaccessibility ==
    << "I", "n", "a", "c", "c", "e", "s", "s", "i", "b", "i", "l", "i", "t", "y" >>
TextWcagLevel == << "W", "C", "A", "G", " ", "2", ".", "1", " ", "A", "A" >>
TextTriple == << "1", ".", "1", ".", "1" >>
LabelAccessibility == DEFAULT_PRIMARY_LABEL
LabelAccessibilityMixed ==
    << "A", "c", "c", "e", "s", "s", "i", "b", "i", "l", "i", "t", "y" >>
LabelAccessibilityBug ==
    << "a", "c", "c", "e", "s", "s", "i", "b", "i", "l", "i", "t", "y", "-", "b", "u", "g" >>
LabelBug == << "b", "u", "g" >>
LabelA11y == << "A", "1", "1", "y" >>

\* The repository object behind key k: odd keys are sources, even keys forks
RepoOf(k) ==
    [ name |-> << "r" >> \o NumberToString(k),
      owner |-> << "o", "r", "g" >>,
      fork |-> (k % 2 = 0) ]

\* The issue objects of the provider.  Several share an id, so that a listing
\* can yield the same identifier more than once.
IssueCatalogue ==
    << [ id |-> 1, number |-> 1, pull_request |-> FALSE,
         labels |-> << LabelAccessibility >>,
         title |-> TextMenu, body |-> TextSeeSc, comments |-> 0 ],
       [ id |-> 2, number |-> 2, pull_request |-> FALSE,
         labels |-> << LabelAccessibilityMixed >>,
         title |-> TextMenu, body |-> Null, comments |-> 100 ],
       [ id |-> 1, number |-> 3, pull_request |-> TRUE,
         labels |-> << LabelAccessibility >>,
         title |-> TextKeywordUpper, body |-> TextSeeSc, comments |-> 2 ],
       [ id |-> 2, number |-> 4, pull_request |-> FALSE,
         labels |-> << LabelBug, LabelAccessibilityBug >>,
         title |-> TextTriple, body |-> TextTriple, comments |-> 0 ],
       [ id |-> 3, number |-> 5, pull_request |-> FALSE,
         labels |-> << >>,
         title |-> TextKeywordUpper, body |-> << >>, comments |-> 0 ],
       [ id |-> 3, number |-> 6, pull_request |-> FALSE,
         labels |-> << >>,
         title |-> TextMenu, body |-> TextInaccessibility, comments |-> 0 ],
       [ id |-> 4, number |-> 7, pull_request |-> FALSE,
         labels |-> << LabelA11y >>,
         title |-> TextMenu, body |-> Null, comments |-> 1 ],
       [ id |-> 5, number |-> 8, pull_request |-> FALSE,
         labels |-> << LabelAccessibility >>,
         title |-> TextWcagLevel, body |-> TextSeeSc, comments |-> 0 ] >>

\* The issue object behind key k: a catalogue issue, or one of the plain issues
\* that fill a long listing (no label, no keyword, an id of its own)
IssueOf(k) ==
    IF k \in DOMAIN IssueCatalogue THEN IssueCatalogue[k]
    ELSE [ id |-> k, number |-> k, pull_request |-> FALSE, labels |-> << >>,
           title |-> TextMenu, body |-> Null, comments |-> 0 ]

CommentCatalogue ==
    << [ user |-> << "b", "o", "b" >>, body |-> TextWcagLevel ],
       [ user |-> Null, body |-> TextTriple ] >>

CommentOf(k) ==
    IF k \in DOMAIN CommentCatalogue THEN CommentCatalogue[k]
    ELSE [ user |-> << "a", "m", "y" >>, body |-> Null ]

\* The collections the provider may hold behind one listing endpoint: every
\* short listing, and a long one that fills one page exactly (repositories,
\* comments) or spans three pages, 100 + 100 + 40 (issues).  In a short
\* organization the first repository may hold any issue listing, the second
\* at most one issue and the others none; in a long organization (the caller
\* holds more than MaxRepos repositories) no repository has issues.  An issue
\* has no more comments than its comment count says.
ListingsOf(kind, key, repos) ==
    CASE kind = "repos" ->
             { KeysFrom(0, n) : n \in 0 .. MaxRepos } \cup { KeysFrom(0, PER_PAGE) }
      [] kind = "issues" ->
             IF repos > MaxRepos \/ key > 2 THEN { << >> }
             ELSE IF key = 2 THEN SeqsUpTo(DOMAIN IssueCatalogue, 1)
             ELSE SeqsUpTo(DOMAIN IssueCatalogue, MaxIssues)
                      \cup { KeysFrom(Len(IssueCatalogue), 2 * PER_PAGE + 40) }
      [] kind = "comments" ->
             { c \in SeqsUpTo(DOMAIN CommentCatalogue, MaxComments) \cup
                         { KeysFrom(Len(CommentCatalogue), PER_PAGE) } :
                   Len(c) <= IssueOf(key).comments }

\* The page the provider answers a request with: the items
\* (page - 1) * per_page + 1 .. page * per_page of the collection
PageOf(collection, pageNo, perPage) ==
    LET first == (pageNo - 1) * perPage + 1
        last  == IF pageNo * perPage < Len(collection) THEN pageNo * perPage
                 ELSE Len(collection)
    IN  SubSeq(collection, first, last)

\* The errors a request may raise: status and the x-ratelimit-remaining header
\* ("absent" when the response carries none)
Errors ==
    { [ status |-> 404, remaining |-> "absent" ],
      [ status |-> 403, remaining |-> "0" ],
      [ status |-> 403, remaining |-> "12" ],
      [ status |-> 429, remaining |-> "0" ] }

\* No error: the value of lastError while a call has seen none
NoError == [ status |-> 0, remaining |-> "absent" ]

(***************************************************************************)
(* State                                                                   *)
(***************************************************************************)
VARIABLES
    pc,                \* where the script is
    exitCode,          \* the code given to process.exit, -1 while running
    GITHUB_TOKEN,      \* process.env.GITHUB_TOKEN, Null when not set
    argv,              \* the parsed command line
    primaryLabel,
    additionalLabels,
    caller,            \* the listing the running fetchAllPages call is for
    owner,             \* the object whose listing it is (repository, issue; 0: the organization)
    collection,        \* << what the provider holds behind that listing >>, << >> until
                       \* its first answer shows it
    allItems,
    page,
    hasMore,
    inflight,          \* the requests sent and not yet answered
    requested,         \* the page numbers requested so far by the running call
    lastError,         \* the error the running call has caught, NoError if none
    result,            \* the value the last fetchAllPages call returned
    repositories,
    repoIdx,           \* position of the for loop over repositories
    repoIssues,
    issueIdx,          \* position of the for loop over repoIssues
    processedIssueIds,
    issuesData,
    recordSource,      \* for every record of issuesData, the issue it was built from
    csvWritten,        \* whether the output file exists
    csvRows,           \* the rows of the output file
    scanPc,            \* where a call of findWcagScInText is ("idle" between calls)
    text,              \* the argument of the running call of findWcagScInText
    foundSc,           \* its Set, in insertion order
    pattern,           \* the pattern its forEach is at
    lastIndex,         \* the lastIndex property of each of the five global RegExp objects
    returned,          \* the value the last call of findWcagScInText returned
    calls              \* the calls of findWcagScInText made so far

\* The state of the script but for the extractor's
scriptVars ==
    << pc, exitCode, GITHUB_TOKEN, argv, primaryLabel, additionalLabels, caller,
       owner, collection, allItems, page, hasMore, inflight, requested, lastError, result,
       repositories, repoIdx, repoIssues, issueIdx, processedIssueIds, issuesData,
       recordSource, csvWritten, csvRows >>

\* The state of findWcagScInText and of the pattern objects it shares between calls
scanVars == << scanPc, text, foundSc, pattern, lastIndex, returned, calls >>

vars == << scriptVars, scanVars >>

fetchVars == << caller, owner, collection, allItems, page, hasMore, inflight, requested, lastError >>

configVars == << GITHUB_TOKEN, argv, primaryLabel, additionalLabels >>

outputVars == << processedIssueIds, issuesData, recordSource, csvWritten, csvRows >>

loopVars == << repositories, repoIdx, repoIssues, issueIdx >>

\* The command lines of the model: -r and -h given or not, and at most one of
\* -l and -a
CommandLines ==
    { c \in [ r : { Null, << "o", "r", "g" >> },
              h : BOOLEAN,
              l : { Null, << "B", "u", "g" >> },
              a : { Null, << "x", ",", " ", "A", "1", "1", "Y" >> } ] :
          c.l = Null \/ c.a = Null }

Init ==
    /\ pc = "startup"
    /\ exitCode = -1
    /\ GITHUB_TOKEN \in { Null, << "t", "o", "k" >> }
    /\ argv \in CommandLines
    /\ primaryLabel = Null
    /\ additionalLabels = << >>
    /\ caller = "none"
    /\ owner = 0
    /\ collection = << >>
    /\ allItems = << >>
    /\ page = 1
    /\ hasMore = FALSE
    /\ inflight = { }
    /\ requested = << >>
    /\ lastError = NoError
    /\ result = << >>
    /\ repositories = << >>
    /\ repoIdx = 0
    /\ repoIssues = << >>
    /\ issueIdx = 0
    /\ processedIssueIds = { }
    /\ issuesData = << >>
    /\ recordSource = << >>
    /\ csvWritten = FALSE
    /\ csvRows = << >>
    /\ scanPc = "idle"
    /\ text = Null
    /\ foundSc = << >>
    /\ pattern = 0
    /\ lastIndex = [ p \in WCAG_PATTERNS |-> 0 ]
    /\ returned = << >>
    /\ calls = 0

(***************************************************************************)
(* Start of the script: token check and command line                       *)
(***************************************************************************)
\* String.prototype.split(','): the pieces between the commas
RECURSIVE split(_)
split(s) ==
    IF \A i \in DOMAIN s : s[i] # "," THEN << s >>
    ELSE LET c == CHOOSE i \in DOMAIN s : s[i] = "," /\ \A k \in 1 .. (i - 1) : s[k] # ","
         IN  << SubSeq(s, 1, c - 1) >> \o split(SubSeq(s, c + 1, Len(s)))

\* additionalLabelsString ? additionalLabelsString.split(',').map(s => s.trim()) : []
ParseAdditionalLabels(str) ==
    IF str = Null \/ str = << >> THEN << >>
    ELSE LET parts == split(str) IN [ i \in DOMAIN parts |-> trim(parts[i]) ]

\* process.exit(code)
Exit(code) ==
    /\ pc' = "exited"
    /\ exitCode' = code

\* The beginning of a fetchAllPages call for the listing kind of the object key
StartFetch(kind, key) ==
    /\ pc' = "fetch"
    /\ caller' = kind
    /\ owner' = key
    /\ collection' = << >>
    /\ allItems' = << >>
    /\ page' = 1
    /\ hasMore' = TRUE
    /\ requested' = << >>
    /\ lastError' = NoError
    /\ UNCHANGED inflight

\* if (!GITHUB_TOKEN) process.exit(1)
startup_NoToken ==
    /\ pc = "startup"
    /\ GITHUB_TOKEN = Null
    /\ Exit(1)
    /\ UNCHANGED << scanVars, configVars, fetchVars, result, loopVars, outputVars >>

\* if (argv.h || argv.help) process.exit(0)
startup_Help ==
    /\ pc = "startup"
    /\ GITHUB_TOKEN # Null
    /\ argv.h
    /\ Exit(0)
    /\ UNCHANGED << scanVars, configVars, fetchVars, result, loopVars, outputVars >>

\* if (!organization) process.exit(1)
startup_NoOrganization ==
    /\ pc = "startup"
    /\ GITHUB_TOKEN # Null
    /\ ~argv.h
    /\ argv.r = Null
    /\ Exit(1)
    /\ UNCHANGED << scanVars, configVars, fetchVars, result, loopVars, outputVars >>

\* startup_Run with the token check left out
startup_Run_WithoutTokenCheck ==
    /\ pc = "startup"
    /\ ~argv.h
    /\ argv.r # Null
    /\ primaryLabel' = (IF argv.l # Null THEN argv.l ELSE DEFAULT_PRIMARY_LABEL)
    /\ additionalLabels' = ParseAdditionalLabels(argv.a)
    /\ StartFetch("repos", 0)
    /\ UNCHANGED << scanVars, exitCode, GITHUB_TOKEN, argv, result, loopVars, outputVars >>

\* gatherAccessibilityIssues(organization, primaryLabel, additionalLabels) up to
\* its first await: the repository listing is asked for
startup_Run ==
    /\ pc = "startup"
    /\ GITHUB_TOKEN # Null
    /\ ~argv.h
    /\ argv.r # Null
    /\ primaryLabel' = (IF argv.l # Null THEN argv.l ELSE DEFAULT_PRIMARY_LABEL)
    /\ additionalLabels' = ParseAdditionalLabels(argv.a)
    /\ StartFetch("repos", 0)
    /\ UNCHANGED << scanVars, exitCode, GITHUB_TOKEN, argv, result, loopVars, outputVars >>

(***************************************************************************)
(* fetchAllPages                                                           *)
(***************************************************************************)
\* The page number of the next request, after a page of data has been handled:
\* the loop body has no assignment to page
PageAfter(pageNo, data) == pageNo

\* hasMore after a page of data has been handled
HasMoreAfter(data) == Len(data) > 0 /\ ~(Len(data) < PER_PAGE)

\* allItems after a page of data has been handled
ItemsAfter(items, data) == IF Len(data) > 0 THEN items \o data ELSE items

\* ClassifyError with every 4xx status but 403 taken for a missing resource and
\* every 403 for rate-limit exhaustion, whatever the remaining quota
ClassifyError_ByStatusOnly(error) ==
    IF error.status = 403 THEN "rate-limit"
    ELSE IF error.status >= 400 /\ error.status < 500 THEN "not-found"
    ELSE "other"

\* ClassifyError with the remaining quota compared to the number 0, which the
\* header, a string, never equals
ClassifyError_NumericQuota(error) ==
    IF error.status = 404 THEN "not-found" ELSE "other"

\* ClassifyError with the not-found branch missing its own hasMore = false and
\* falling into the exit of the rate-limit branch
ClassifyError_NotFoundExits(error) ==
    IF error.status = 404 \/ (error.status = 403 /\ error.remaining = "0")
    THEN "rate-limit" ELSE "other"

\* ClassifyError with every 403 taken for a resource without access: warn and
\* skip, as for 404
ClassifyError_ForbiddenSkipped(error) ==
    IF error.status = 404 \/ error.status = 403 THEN "not-found" ELSE "other"

\* The branch of the catch block an error takes
ClassifyError(error) ==
    IF error.status = 404 THEN "not-found"
    ELSE IF error.status = 403 /\ error.remaining = "0" THEN "rate-limit"
    ELSE "other"

\* fetchAllPages_Request without the await: the call is sent and the loop goes on
fetchAllPages_Request_NotAwaited ==
    /\ pc = "fetch"
    /\ hasMore
    /\ Len(requested) < MaxRequests
    /\ inflight' = inflight \cup { [ kind |-> caller, page |-> page, per_page |-> PER_PAGE ] }
    /\ requested' = Append(requested, page)
    /\ UNCHANGED << scanVars, pc, exitCode, configVars, caller, owner, collection, allItems, page,
                    hasMore, lastError, result, loopVars, outputVars >>

\* while (hasMore): apiCall({ ...params, page, per_page: 100 }) is sent
fetchAllPages_Request ==
    /\ pc = "fetch"
    /\ hasMore
    /\ Len(requested) < MaxRequests
    /\ inflight' = inflight \cup { [ kind |-> caller, page |-> page, per_page |-> PER_PAGE ] }
    /\ requested' = Append(requested, page)
    /\ pc' = "await"
    /\ UNCHANGED << scanVars, exitCode, configVars, caller, owner, collection, allItems, page,
                    hasMore, lastError, result, loopVars, outputVars >>

\* The provider answers the request with a page of data: a page of the
\* collection it holds, the same collection for every request of the call
fetchAllPages_Response ==
    /\ pc = "await"
    /\ \E req \in inflight :
       \E held \in (IF collection = << >> THEN ListingsOf(caller, owner, Len(repositories))
                    ELSE { collection[1] }) :
           LET data == PageOf(held, req.page, req.per_page)
           IN  /\ collection' = << held >>
               /\ inflight' = inflight \ { req }
               /\ allItems' = ItemsAfter(allItems, data)
               /\ hasMore' = HasMoreAfter(data)
               /\ page' = PageAfter(page, data)
    /\ pc' = "fetch"
    /\ UNCHANGED << scanVars, exitCode, configVars, caller, owner, requested, lastError,
                    result, loopVars, outputVars >>

\* The request fails and the catch block runs
fetchAllPages_Error ==
    /\ pc = "await"
    /\ \E req \in inflight, error \in Errors :
           /\ inflight' = inflight \ { req }
           /\ lastError' = error
           /\ IF ClassifyError(error) = "rate-limit"
              THEN Exit(1) /\ UNCHANGED hasMore
              ELSE /\ hasMore' = FALSE
                   /\ pc' = "fetch"
                   /\ UNCHANGED exitCode
    /\ UNCHANGED << scanVars, configVars, caller, owner, collection, allItems, page, requested,
                    result, loopVars, outputVars >>

\* return allItems
fetchAllPages_Return ==
    /\ pc = "fetch"
    /\ ~hasMore
    /\ result' = allItems
    /\ pc' = "returned"
    /\ UNCHANGED << scanVars, exitCode, configVars, fetchVars, loopVars, outputVars >>

(***************************************************************************)
(* gatherAccessibilityIssues                                               *)
(***************************************************************************)
\* IsPullRequest reading a field the issue objects do not have (undefined)
IsPullRequest_WrongField(issue) == FALSE

\* if (issue.pull_request) continue
IsPullRequest(issue) == issue.pull_request

\* AlreadyProcessed looking the issue's number up in the set of identifiers
AlreadyProcessed_ByNumber(ids, issue) == issue.number \in ids

\* processedIssueIds.has(issue.id)
AlreadyProcessed(ids, issue) == issue.id \in ids

\* issue.labels.map(label => label.name.toLowerCase())
issueLabels(issue) == [ i \in DOMAIN issue.labels |-> toLowerCase(issue.labels[i]) ]

\* hasRelevantLabel with String.prototype.includes in place of the array's:
\* a label that contains the wanted label matches
hasRelevantLabel_Substring(issue, primary, additional) ==
    \E k \in DOMAIN issue.labels :
        \/ includes(toLowerCase(issue.labels[k]), toLowerCase(primary))
        \/ \E i \in DOMAIN additional :
               includes(toLowerCase(issue.labels[k]), toLowerCase(additional[i]))

hasRelevantLabel(issue, primary, additional) ==
    \/ arrayIncludes(issueLabels(issue), toLowerCase(primary))
    \/ \E i \in DOMAIN additional :
           arrayIncludes(issueLabels(issue), toLowerCase(additional[i]))

isKeywordFoundInText(issue) ==
    \/ includes(toLowerCase(issue.title), KEYWORD)
    \/ /\ issue.body # Null
       /\ issue.body # << >>
       /\ includes(toLowerCase(issue.body), KEYWORD)

\* The issue passes the gate if (!hasRelevantLabel && !isKeywordFoundInText) continue
IsIncluded(issue, primary, additional) ==
    hasRelevantLabel(issue, primary, additional) \/ isKeywordFoundInText(issue)

\* lastCommenterOf reading comments[0], the first comment of the listing
lastCommenterOf_First(comments) ==
    IF Len(comments) > 0
    THEN LET first == CommentOf(comments[1])
         IN  IF first.user # Null THEN first.user ELSE << "N", "/", "A" >>
    ELSE Null

\* comments[comments.length - 1].user ? ....user.login : 'N/A', null without comments
lastCommenterOf(comments) ==
    IF Len(comments) > 0
    THEN LET last == CommentOf(comments[Len(comments)])
         IN  IF last.user # Null THEN last.user ELSE << "N", "/", "A" >>
    ELSE Null

\* comments.forEach(comment => wcagScFound = wcagScFound.concat(findWcagScInText(comment.body)))
RECURSIVE wcagScOfComments(_)
wcagScOfComments(comments) ==
    IF comments = << >> THEN << >>
    ELSE wcagScOfComments(SubSeq(comments, 1, Len(comments) - 1))
             \o findWcagScInText(CommentOf(comments[Len(comments)]).body)

\* wcagScFound when the record is built: comments, then body, then title, deduplicated
wcagScFoundOf(issue, comments) ==
    Dedup(wcagScOfComments(comments)
              \o findWcagScInText(issue.body)
              \o findWcagScInText(issue.title))

\* The object pushed to issuesData (the fields copied from the issue's URL,
\* state, reporter and timestamps are left out: nothing is decided on them)
ExportRecord(repo, issue, comments) ==
    LET wcagScFound == wcagScFoundOf(issue, comments)
    IN  [ WCAG_SC        |-> IF Len(wcagScFound) > 0
                             THEN join(wcagScFound, << ";", " " >>) ELSE Null,
          Issue_ID       |-> repo.name \o << "-" >> \o NumberToString(issue.number),
          Issue_Title    |-> issue.title,
          Project        |-> repo.name,
          Priority       |-> Null,
          Component      |-> Null,
          Version        |-> Null,
          Comments       |-> issue.comments,
          Has_Fork       |-> IF repo.fork THEN << "Y", "e", "s" >> ELSE << "N", "o" >>,
          Last_Commenter |-> lastCommenterOf(comments) ]

\* PushRecord with unshift in place of push: the record goes to the front
PushRecord_Unshift(comments) ==
    LET repoKey == repositories[repoIdx]
        key     == repoIssues[issueIdx]
    IN  /\ issuesData' = << ExportRecord(RepoOf(repoKey), IssueOf(key), comments) >> \o issuesData
        /\ recordSource' = << [ key |-> key, id |-> IssueOf(key).id, repo |-> repoKey ] >>
                               \o recordSource
        /\ issueIdx' = issueIdx + 1
        /\ pc' = "issue_loop"

\* issuesData.push({...}) and on to the next issue
PushRecord(comments) ==
    LET repoKey == repositories[repoIdx]
        key     == repoIssues[issueIdx]
    IN  /\ issuesData' = Append(issuesData, ExportRecord(RepoOf(repoKey), IssueOf(key), comments))
        /\ recordSource' = Append(recordSource,
                                  [ key |-> key, id |-> IssueOf(key).id, repo |-> repoKey ])
        /\ issueIdx' = issueIdx + 1
        /\ pc' = "issue_loop"

\* gather_Repositories without the early return for an empty listing
gather_Repositories_NoEarlyReturn ==
    /\ pc = "returned"
    /\ caller = "repos"
    /\ repositories' = result
    /\ repoIdx' = 1
    /\ pc' = "repo_loop"
    /\ UNCHANGED << scanVars, exitCode, configVars, fetchVars, result, repoIssues, issueIdx, outputVars >>

\* const repositories = await fetchAllPages(octokit.repos.listForOrg, ...);
\* if (repositories.length === 0) return
gather_Repositories ==
    /\ pc = "returned"
    /\ caller = "repos"
    /\ repositories' = result
    /\ repoIdx' = 1
    /\ pc' = IF Len(result) = 0 THEN "finished" ELSE "repo_loop"
    /\ UNCHANGED << scanVars, exitCode, configVars, fetchVars, result, repoIssues, issueIdx, outputVars >>

\* for (const repo of repositories): the issue listing of the next repository is asked for
gather_NextRepository ==
    /\ pc = "repo_loop"
    /\ repoIdx <= Len(repositories)
    /\ StartFetch("issues", repositories[repoIdx])
    /\ UNCHANGED << scanVars, exitCode, configVars, result, loopVars, outputVars >>

\* const repoIssues = await fetchAllPages(octokit.issues.listForRepo, ...)
gather_RepoIssues ==
    /\ pc = "returned"
    /\ caller = "issues"
    /\ repoIssues' = result
    /\ issueIdx' = 1
    /\ pc' = "issue_loop"
    /\ UNCHANGED << scanVars, exitCode, configVars, fetchVars, result, repositories, repoIdx, outputVars >>

\* The issue the loop over repoIssues is at
CurrentIssue == IssueOf(repoIssues[issueIdx])

AtIssue == pc = "issue_loop" /\ issueIdx <= Len(repoIssues)

\* if (issue.pull_request) continue
gather_SkipPullRequest ==
    /\ AtIssue
    /\ IsPullRequest(CurrentIssue)
    /\ issueIdx' = issueIdx + 1
    /\ UNCHANGED << scanVars, pc, exitCode, configVars, fetchVars, result, repositories, repoIdx,
                    repoIssues, outputVars >>

\* if (processedIssueIds.has(issue.id)) continue
gather_SkipProcessed ==
    /\ AtIssue
    /\ ~IsPullRequest(CurrentIssue)
    /\ AlreadyProcessed(processedIssueIds, CurrentIssue)
    /\ issueIdx' = issueIdx + 1
    /\ UNCHANGED << scanVars, pc, exitCode, configVars, fetchVars, result, repositories, repoIdx,
                    repoIssues, outputVars >>

\* gather_SkipUnrelated with the identifier marked only behind the inclusion
\* rule: an excluded issue leaves processedIssueIds as it was
gather_SkipUnrelated_Unmarked ==
    /\ AtIssue
    /\ ~IsPullRequest(CurrentIssue)
    /\ ~AlreadyProcessed(processedIssueIds, CurrentIssue)
    /\ ~IsIncluded(CurrentIssue, primaryLabel, additionalLabels)
    /\ issueIdx' = issueIdx + 1
    /\ UNCHANGED << scanVars, pc, exitCode, configVars, fetchVars, result, repositories, repoIdx,
                    repoIssues, outputVars >>

\* processedIssueIds.add(issue.id); if (!hasRelevantLabel && !isKeywordFoundInText) continue
gather_SkipUnrelated ==
    /\ AtIssue
    /\ ~IsPullRequest(CurrentIssue)
    /\ ~AlreadyProcessed(processedIssueIds, CurrentIssue)
    /\ ~IsIncluded(CurrentIssue, primaryLabel, additionalLabels)
    /\ processedIssueIds' = processedIssueIds \cup { CurrentIssue.id }
    /\ issueIdx' = issueIdx + 1
    /\ UNCHANGED << scanVars, pc, exitCode, configVars, fetchVars, result, repositories, repoIdx,
                    repoIssues, issuesData, recordSource, csvWritten, csvRows >>

\* gather_FetchComments for every included issue, whatever its comment count
gather_FetchComments_Always ==
    /\ AtIssue
    /\ ~IsPullRequest(CurrentIssue)
    /\ ~AlreadyProcessed(processedIssueIds, CurrentIssue)
    /\ IsIncluded(CurrentIssue, primaryLabel, additionalLabels)
    /\ processedIssueIds' = processedIssueIds \cup { CurrentIssue.id }
    /\ StartFetch("comments", repoIssues[issueIdx])
    /\ UNCHANGED << scanVars, exitCode, configVars, result, loopVars, issuesData, recordSource,
                    csvWritten, csvRows >>

\* An included issue with issue.comments > 0: its comment listing is asked for
gather_FetchComments ==
    /\ AtIssue
    /\ ~IsPullRequest(CurrentIssue)
    /\ ~AlreadyProcessed(processedIssueIds, CurrentIssue)
    /\ IsIncluded(CurrentIssue, primaryLabel, additionalLabels)
    /\ CurrentIssue.comments > 0
    /\ processedIssueIds' = processedIssueIds \cup { CurrentIssue.id }
    /\ StartFetch("comments", repoIssues[issueIdx])
    /\ UNCHANGED << scanVars, exitCode, configVars, result, loopVars, issuesData, recordSource,
                    csvWritten, csvRows >>

\* An included issue without comments: the record is built from title and body
gather_PushWithoutComments ==
    /\ AtIssue
    /\ ~IsPullRequest(CurrentIssue)
    /\ ~AlreadyProcessed(processedIssueIds, CurrentIssue)
    /\ IsIncluded(CurrentIssue, primaryLabel, additionalLabels)
    /\ ~(CurrentIssue.comments > 0)
    /\ processedIssueIds' = processedIssueIds \cup { CurrentIssue.id }
    /\ PushRecord(<< >>)
    /\ UNCHANGED << scanVars, exitCode, configVars, fetchVars, result, repositories, repoIdx,
                    repoIssues, csvWritten, csvRows >>

\* const comments = await fetchAllPages(octokit.issues.listComments, ...): the
\* record is built from the comments, the body and the title
gather_Comments ==
    /\ pc = "returned"
    /\ caller = "comments"
    /\ PushRecord(result)
    /\ UNCHANGED << scanVars, exitCode, configVars, fetchVars, result, repositories, repoIdx,
                    repoIssues, processedIssueIds, csvWritten, csvRows >>

\* The loop over repoIssues ends: on to the next repository
gather_EndOfIssues ==
    /\ pc = "issue_loop"
    /\ issueIdx > Len(repoIssues)
    /\ repoIdx' = repoIdx + 1
    /\ pc' = "repo_loop"
    /\ UNCHANGED << scanVars, exitCode, configVars, fetchVars, result, repositories, repoIssues,
                    issueIdx, outputVars >>

\* The loop over repositories ends: stringify(issuesData, ...) is called
gather_EndOfRepositories ==
    /\ pc = "repo_loop"
    /\ repoIdx > Len(repositories)
    /\ pc' = "write"
    /\ UNCHANGED << scanVars, exitCode, configVars, fetchVars, result, loopVars, outputVars >>

\* fs.writeFile(filename, output, ...) succeeds: one row per record, in order
gather_WriteCsv ==
    /\ pc = "write"
    /\ csvWritten' = TRUE
    /\ csvRows' = issuesData
    /\ pc' = "finished"
    /\ UNCHANGED << scanVars, exitCode, configVars, fetchVars, result, loopVars, processedIssueIds,
                    issuesData, recordSource >>

\* stringify or fs.writeFile reports an error: no file
gather_WriteCsvFails ==
    /\ pc = "write"
    /\ pc' = "finished"
    /\ UNCHANGED << scanVars, exitCode, configVars, fetchVars, result, loopVars, outputVars >>

Next ==
    \/ startup_NoToken
    \/ startup_Help
    \/ startup_NoOrganization
    \/ startup_Run
    \/ fetchAllPages_Request
    \/ fetchAllPages_Response
    \/ fetchAllPages_Error
    \/ fetchAllPages_Return
    \/ gather_Repositories
    \/ gather_NextRepository
    \/ gather_RepoIssues
    \/ gather_SkipPullRequest
    \/ gather_SkipProcessed
    \/ gather_SkipUnrelated
    \/ gather_FetchComments
    \/ gather_PushWithoutComments
    \/ gather_Comments
    \/ gather_EndOfIssues
    \/ gather_EndOfRepositories
    \/ gather_WriteCsv
    \/ gather_WriteCsvFails

Spec == Init /\ [][Next]_vars

(***************************************************************************)
(* findWcagScInText step by step, on the pattern objects it shares between *)
(* its calls                                                               *)
(***************************************************************************)
\* What may stand before and after "WCAG 2.1 AA" in a text
ScanPrefixes == { << >>, << "x" >>, << "s", "e", "e", " " >>, << "A" >> }

ScanSuffixes ==
    { << >>, << "." >>, << "s" >>, << "A" >>, << "a" >>, << " ", "1", ".", "1", ".", "1" >> }

TextWcagLower == << "w", "c", "a", "g", " ", " ", "2", ".", "0", " ", "a" >>

\* The arguments findWcagScInText is called with: absent, empty, texts around
\* "WCAG 2.1 AA", and texts of the issues above
ScanTexts ==
    { Null, << >>, TextSeeSc, TextTriple, TextKeywordUpper, TextMenu, TextWcagLower }
        \cup { pre \o TextWcagLevel \o suf : pre \in ScanPrefixes, suf \in ScanSuffixes }

\* The state of the script while the extractor alone is followed
InitScan ==
    /\ pc = "startup"
    /\ exitCode = -1
    /\ GITHUB_TOKEN = << "t", "o", "k" >>
    /\ argv = [ r |-> << "o", "r", "g" >>, h |-> FALSE, l |-> Null, a |-> Null ]
    /\ primaryLabel = Null
    /\ additionalLabels = << >>
    /\ caller = "none"
    /\ owner = 0
    /\ collection = << >>
    /\ allItems = << >>
    /\ page = 1
    /\ hasMore = FALSE
    /\ inflight = { }
    /\ requested = << >>
    /\ lastError = NoError
    /\ result = << >>
    /\ repositories = << >>
    /\ repoIdx = 0
    /\ repoIssues = << >>
    /\ issueIdx = 0
    /\ processedIssueIds = { }
    /\ issuesData = << >>
    /\ recordSource = << >>
    /\ csvWritten = FALSE
    /\ csvRows = << >>
    /\ scanPc = "idle"
    /\ text = Null
    /\ foundSc = << >>
    /\ pattern = 0
    /\ lastIndex = [ p \in WCAG_PATTERNS |-> 0 ]
    /\ returned = << >>
    /\ calls = 0

\* if (!text): null, undefined and the empty string
IsFalsy(t) == t = Null \/ t = << >>

\* findWcagScInText_Call without the early return: every argument is scanned
findWcagScInText_Call_Unguarded ==
    /\ scanPc = "idle"
    /\ calls < MaxCalls
    /\ calls' = calls + 1
    /\ foundSc' = << >>
    /\ \E t \in ScanTexts : text' = t
    /\ scanPc' = "forEach"
    /\ pattern' = 1
    /\ UNCHANGED << scriptVars, lastIndex, returned >>

\* const foundSc = new Set(); if (!text) return []
findWcagScInText_Call ==
    /\ scanPc = "idle"
    /\ calls < MaxCalls
    /\ calls' = calls + 1
    /\ foundSc' = << >>
    /\ \E t \in ScanTexts :
           /\ text' = t
           /\ IF IsFalsy(t)
              THEN /\ returned' = << >>
                   /\ UNCHANGED << scanPc, pattern >>
              ELSE /\ scanPc' = "forEach"
                   /\ pattern' = 1
                   /\ UNCHANGED returned
    /\ UNCHANGED << scriptVars, lastIndex >>

\* WCAG_PATTERNS.forEach(pattern => { pattern.lastIndex = 0; ...
findWcagScInText_Pattern ==
    /\ scanPc = "forEach"
    /\ pattern \in WCAG_PATTERNS
    /\ lastIndex' = [ lastIndex EXCEPT ![pattern] = 0 ]
    /\ scanPc' = "while"
    /\ UNCHANGED << scriptVars, text, foundSc, pattern, returned, calls >>

\* findWcagScInText_Exec with if in place of while: one exec for each pattern
findWcagScInText_Exec_Once ==
    /\ scanPc = "while"
    /\ lastIndex' = [ lastIndex EXCEPT ![pattern] = exec(pattern, text, lastIndex[pattern]).lastIndex ]
    /\ foundSc' = IF exec(pattern, text, lastIndex[pattern]).match \in { Null, << >> }
                  THEN foundSc
                  ELSE SetAdd(foundSc, NormalizeMatch(exec(pattern, text, lastIndex[pattern]).match))
    /\ pattern' = pattern + 1
    /\ scanPc' = "forEach"
    /\ UNCHANGED << scriptVars, text, returned, calls >>

\* findWcagScInText_Exec leaving the forEach after the first pattern that has
\* found something
findWcagScInText_Exec_FirstPatternWins ==
    /\ scanPc = "while"
    /\ lastIndex' = [ lastIndex EXCEPT ![pattern] = exec(pattern, text, lastIndex[pattern]).lastIndex ]
    /\ IF exec(pattern, text, lastIndex[pattern]).match = Null
       THEN /\ pattern' = (IF foundSc # << >> THEN Len(lastIndex) + 1 ELSE pattern + 1)
            /\ scanPc' = "forEach"
            /\ UNCHANGED foundSc
       ELSE /\ foundSc' = IF exec(pattern, text, lastIndex[pattern]).match # << >>
                          THEN SetAdd(foundSc,
                                      NormalizeMatch(exec(pattern, text, lastIndex[pattern]).match))
                          ELSE foundSc
            /\ UNCHANGED << pattern, scanPc >>
    /\ UNCHANGED << scriptVars, text, returned, calls >>

\* while ((match = pattern.exec(text)) !== null) { if (match[0]) foundSc.add(...) }:
\* one exec; exec moves the pattern's lastIndex behind the match, or back to 0
\* when it finds none, which ends the loop of this pattern
findWcagScInText_Exec ==
    /\ scanPc = "while"
    /\ lastIndex' = [ lastIndex EXCEPT ![pattern] = exec(pattern, text, lastIndex[pattern]).lastIndex ]
    /\ IF exec(pattern, text, lastIndex[pattern]).match = Null
       THEN /\ pattern' = pattern + 1
            /\ scanPc' = "forEach"
            /\ UNCHANGED foundSc
       ELSE /\ foundSc' = IF exec(pattern, text, lastIndex[pattern]).match # << >>
                          THEN SetAdd(foundSc,
                                      NormalizeMatch(exec(pattern, text, lastIndex[pattern]).match))
                          ELSE foundSc
            /\ UNCHANGED << pattern, scanPc >>
    /\ UNCHANGED << scriptVars, text, returned, calls >>

\* return Array.from(foundSc)
findWcagScInText_Return ==
    /\ scanPc = "forEach"
    /\ pattern \notin WCAG_PATTERNS
    /\ returned' = foundSc
    /\ scanPc' = "idle"
    /\ pattern' = 0
    /\ UNCHANGED << scriptVars, text, foundSc, lastIndex, calls >>

NextScan ==
    \/ findWcagScInText_Call
    \/ findWcagScInText_Pattern
    \/ findWcagScInText_Exec
    \/ findWcagScInText_Return

SpecScan == InitScan /\ [][NextScan]_vars

(***************************************************************************)
(* The script followed without end: the loop of fetchAllPages runs for as  *)
(* long as hasMore holds.  To keep the states finite the model keeps the   *)
(* items of the first MaxRequests pages accumulated and the page numbers   *)
(* of the first MaxRequests requests; the loop reads neither.              *)
(***************************************************************************)
\* The part of a sequence the model keeps
Kept(items, n) == IF Len(items) > n THEN SubSeq(items, 1, n) ELSE items

\* while (hasMore): apiCall({ ...params, page, per_page: 100 }) is sent
fetchAllPages_RequestLive ==
    /\ pc = "fetch"
    /\ hasMore
    /\ inflight' = inflight \cup { [ kind |-> caller, page |-> page, per_page |-> PER_PAGE ] }
    /\ requested' = Kept(Append(requested, page), MaxRequests)
    /\ pc' = "await"
    /\ UNCHANGED << scanVars, exitCode, configVars, caller, owner, collection, allItems, page,
                    hasMore, lastError, result, loopVars, outputVars >>

\* The provider answers the request with a page of data
fetchAllPages_ResponseLive ==
    /\ pc = "await"
    /\ \E req \in inflight :
       \E held \in (IF collection = << >> THEN ListingsOf(caller, owner, Len(repositories))
                    ELSE { collection[1] }) :
           /\ collection' = << held >>
           /\ inflight' = inflight \ { req }
           /\ allItems' = Kept(ItemsAfter(allItems, PageOf(held, req.page, req.per_page)),
                               MaxRequests * PER_PAGE)
           /\ hasMore' = HasMoreAfter(PageOf(held, req.page, req.per_page))
           /\ page' = PageAfter(page, PageOf(held, req.page, req.per_page))
    /\ pc' = "fetch"
    /\ UNCHANGED << scanVars, exitCode, configVars, caller, owner, requested, lastError,
                    result, loopVars, outputVars >>

\* The steps that build no record
StepsButRecords ==
    \/ startup_NoToken
    \/ startup_Help
    \/ startup_NoOrganization
    \/ startup_Run
    \/ fetchAllPages_RequestLive
    \/ fetchAllPages_ResponseLive
    \/ fetchAllPages_Error
    \/ fetchAllPages_Return
    \/ gather_Repositories
    \/ gather_NextRepository
    \/ gather_RepoIssues
    \/ gather_SkipPullRequest
    \/ gather_SkipProcessed
    \/ gather_SkipUnrelated
    \/ gather_FetchComments
    \/ gather_EndOfIssues
    \/ gather_EndOfRepositories
    \/ gather_WriteCsv
    \/ gather_WriteCsvFails

\* The steps that build a record
BuildsRecord ==
    \/ gather_PushWithoutComments
    \/ gather_Comments

\* A record can be built: the guards of the two steps of BuildsRecord
CanBuildRecord ==
    \/ /\ AtIssue
       /\ ~IsPullRequest(CurrentIssue)
       /\ ~AlreadyProcessed(processedIssueIds, CurrentIssue)
       /\ IsIncluded(CurrentIssue, primaryLabel, additionalLabels)
       /\ ~(CurrentIssue.comments > 0)
    \/ pc = "returned" /\ caller = "comments"

NextLive == StepsButRecords \/ BuildsRecord

\* The script takes its next step whenever it has one: the provider answers
\* every request, and the event loop runs every continuation.  The fairness of
\* BuildsRecord is weak fairness written out with its enabling condition.
SpecLive ==
    /\ Init
    /\ [][NextLive]_vars
    /\ WF_vars(StepsButRecords)
    /\ ([]<>~CanBuildRecord \/ []<><<BuildsRecord>>_vars)

(***************************************************************************)
(* Properties of fetchAllPages                                             *)
(***************************************************************************)
\* The collection behind the listing of the running call (empty until known)
Held == IF collection = << >> THEN << >> ELSE collection[1]

\* The items of the pages the provider has answered the given requests with
RECURSIVE PagesAnswered(_)
PagesAnswered(pages) ==
    IF pages = << >> THEN << >>
    ELSE PagesAnswered(SubSeq(pages, 1, Len(pages) - 1))
             \o PageOf(Held, pages[Len(pages)], PER_PAGE)

\* The requests of the running call that have been answered with data
AnsweredRequests ==
    IF pc = "await" \/ lastError # NoError
    THEN SubSeq(requested, 1, Len(requested) - 1)
    ELSE requested

\* C1: in a call in which no request has failed, the k-th request asks for page
\* k with page size 100, and every request but the last was answered with a
\* full page of 100 items: nothing is requested after a short or empty page
C1_PagesInOrder ==
    lastError = NoError =>
        /\ \A k \in DOMAIN requested : requested[k] = k
        /\ \A req \in inflight : req.per_page = 100
        /\ \A k \in 1 .. (Len(AnsweredRequests) - 1) :
               Len(PageOf(Held, requested[k], PER_PAGE)) = 100

\* C2: in a call in which no request has failed, the items accumulated for the
\* return value are the first items of the listing, in the listing's order and
\* each once, and the value returned is the whole listing
C2_CompleteSequence ==
    lastError = NoError =>
        /\ Len(allItems) <= Len(Held)
        /\ allItems = SubSeq(Held, 1, Len(allItems))
        /\ pc = "returned" => result = Held

\* C3: after a not-found error the call issues no further request and returns
\* the items of the pages answered before it; the process keeps running and
\* the caller takes the returned sequence as the listing
C3_NotFoundReturnsAccumulated ==
    /\ [](lastError.status = 404 =>
              /\ pc # "exited" /\ exitCode = -1
              /\ pc # "await" /\ inflight = { }
              /\ ~hasMore
              /\ allItems = PagesAnswered(AnsweredRequests)
              /\ pc = "returned" => result = allItems)
    /\ [][lastError.status = 404 =>
              /\ requested' = requested \/ lastError' = NoError
              /\ pc = "returned" /\ caller = "repos" => repositories' = result
              /\ pc = "returned" /\ caller = "issues" => repoIssues' = result]_vars

\* C3 witness: a not-found error after one full page, and the call has
\* returned the 100 items of that page
C3_Witness ==
    /\ pc = "returned"
    /\ lastError.status = 404
    /\ Len(requested) = 2
    /\ Len(result) = 100

RateLimitExhausted == lastError.status = 403 /\ lastError.remaining = "0"

\* C4: once a request has failed with rate-limit exhaustion the process has
\* exited with code 1, nothing has been returned from the call, and no step
\* follows: no request, no retry, no return, no record, no file
C4_RateLimitIsFatal ==
    /\ [](RateLimitExhausted =>
              /\ pc = "exited" /\ exitCode = 1
              /\ inflight = { })
    /\ [][RateLimitExhausted => UNCHANGED vars]_vars

\* C4 witness: rate-limit exhaustion on the second request of an issue listing
\* with 100 items accumulated, which are never returned
C4_Witness ==
    /\ RateLimitExhausted
    /\ caller = "issues"
    /\ Len(requested) = 2
    /\ Len(allItems) = 100
    /\ result # allItems

\* An error that is neither not-found nor rate-limit exhaustion
OtherError == lastError # NoError /\ lastError.status # 404 /\ ~RateLimitExhausted

\* C5: an error of an issue listing that is neither not-found nor rate-limit
\* exhaustion ends that listing only: the process keeps running, the call
\* returns what it has accumulated, the orchestrator loops over exactly those
\* issues, and when that loop ends it goes on to the next repository, whose
\* issue listing it requests; the output is written only after the last
\* repository
C5_OtherErrorIsRepositoryScoped ==
    /\ [](OtherError /\ caller = "issues" =>
              /\ pc # "exited" /\ exitCode = -1
              /\ ~hasMore
              /\ allItems = PagesAnswered(AnsweredRequests)
              /\ pc \in { "fetch", "returned", "issue_loop", "repo_loop", "write", "finished" }
              /\ pc = "issue_loop" => repoIssues = allItems /\ repositories[repoIdx] = owner
              /\ pc = "repo_loop" => repositories[repoIdx - 1] = owner
              /\ pc \in { "write", "finished" } => repoIdx = Len(repositories) + 1)
    /\ [][OtherError /\ caller = "issues" =>
              /\ pc = "fetch" => pc' = "returned" /\ result' = allItems
              /\ pc = "returned" =>
                     pc' = "issue_loop" /\ repoIssues' = result /\ issueIdx' = 1
              /\ pc = "issue_loop" /\ issueIdx > Len(repoIssues) =>
                     pc' = "repo_loop" /\ repoIdx' = repoIdx + 1
              /\ pc = "repo_loop" /\ repoIdx <= Len(repositories) =>
                     /\ pc' = "fetch" /\ caller' = "issues"
                     /\ owner' = repositories[repoIdx]
                     /\ hasMore'
              /\ pc = "repo_loop" /\ repoIdx > Len(repositories) => pc' = "write"]_vars

\* C5 witness: the issue listing of the first of two repositories failed on its
\* second request; the 100 issues accumulated have been processed and the
\* orchestrator is about to request the second repository's issues
C5_Witness ==
    /\ OtherError
    /\ caller = "issues"
    /\ pc = "repo_loop"
    /\ Len(repoIssues) = 100
    /\ Len(repositories) = 2
    /\ repoIdx = 2

\* C6: within one call no page number is requested twice, and after a failed
\* request the call issues no further request
C6_NoPageRequestedTwice ==
    /\ \A i, j \in DOMAIN requested : i # j => requested[i] # requested[j]
    /\ lastError # NoError => pc # "await" /\ inflight = { } /\ ~hasMore

(***************************************************************************)
(* Properties of gatherAccessibilityIssues                                 *)
(***************************************************************************)
\* C7: no two records of the output collection were built from issues with the
\* same identifier (recordSource names the issue every record was built from)
C7_OneRecordPerIdentifier ==
    /\ Len(recordSource) = Len(issuesData)
    /\ \A i, j \in DOMAIN recordSource :
           i # j => recordSource[i].id # recordSource[j].id

\* C7 witness: the second repository's listing has yielded an included issue
\* whose identifier already has a record from the first repository, and the
\* loop over that listing has ended
C7_Witness ==
    /\ pc = "issue_loop"
    /\ repoIdx = 2
    /\ issueIdx > Len(repoIssues)
    /\ \E k \in Range(repoIssues), i \in DOMAIN recordSource :
           /\ recordSource[i].repo = 1
           /\ recordSource[i].id = IssueOf(k).id
           /\ ~IssueOf(k).pull_request
           /\ IsIncluded(IssueOf(k), primaryLabel, additionalLabels)

\* C8: no record was built from an issue with a pull-request marker, and the
\* step that meets such an issue only moves on to the next issue: it marks no
\* identifier as processed, starts no comment listing and appends nothing
C8_PullRequestsExcluded ==
    /\ [](\A i \in DOMAIN recordSource : ~IssueOf(recordSource[i].key).pull_request)
    /\ [][AtIssue /\ CurrentIssue.pull_request =>
              /\ pc' = "issue_loop" /\ issueIdx' = issueIdx + 1
              /\ UNCHANGED << processedIssueIds, issuesData, requested, inflight >>]_vars

\* C8 witness: a pull request labelled "accessibility", with the keyword in its
\* title, has just been skipped and its identifier is not marked
C8_Witness ==
    /\ pc = "issue_loop"
    /\ issueIdx > 1
    /\ LET issue == IssueOf(repoIssues[issueIdx - 1])
       IN  /\ issue.pull_request
           /\ issue.labels = << DEFAULT_PRIMARY_LABEL >>
           /\ primaryLabel = DEFAULT_PRIMARY_LABEL
           /\ includes(toLowerCase(issue.title), KEYWORD)
           /\ issue.id \notin processedIssueIds

\* The inclusion rule as the specification words it
InclusionRule(issue) ==
    \/ \E i \in DOMAIN issue.labels :
           \/ toLowerCase(issue.labels[i]) = toLowerCase(primaryLabel)
           \/ \E j \in DOMAIN additionalLabels :
                  toLowerCase(issue.labels[i]) = toLowerCase(additionalLabels[j])
    \/ \E i \in 1 .. Len(issue.title) :
           i + 12 <= Len(issue.title)
               /\ toLowerCase(SubSeq(issue.title, i, i + 12)) = KEYWORD
    \/ /\ issue.body # Null
       /\ \E i \in 1 .. Len(issue.body) :
              i + 12 <= Len(issue.body)
                  /\ toLowerCase(SubSeq(issue.body, i, i + 12)) = KEYWORD

\* A non-pull-request issue whose identifier is met for the first time
FirstSeen ==
    AtIssue /\ ~CurrentIssue.pull_request /\ CurrentIssue.id \notin processedIssueIds

\* C9: the step that meets a non-pull-request issue for the first time goes on
\* to build its record (it appends the record, or asks for the comments the
\* record needs) exactly if the inclusion rule holds; the comments returned,
\* the record is appended; every record comes from an issue the rule includes
C9_InclusionRule ==
    /\ [](\A i \in DOMAIN recordSource : InclusionRule(IssueOf(recordSource[i].key)))
    /\ [][FirstSeen =>
              /\ InclusionRule(CurrentIssue) /\ CurrentIssue.comments = 0 =>
                     /\ Len(issuesData') = Len(issuesData) + 1
                     /\ recordSource'[Len(recordSource')].key = repoIssues[issueIdx]
              /\ InclusionRule(CurrentIssue) /\ CurrentIssue.comments > 0 =>
                     pc' = "fetch" /\ caller' = "comments" /\ issuesData' = issuesData
              /\ ~InclusionRule(CurrentIssue) =>
                     pc' = "issue_loop" /\ issuesData' = issuesData]_vars
    /\ [][pc = "returned" /\ caller = "comments" =>
              /\ Len(issuesData') = Len(issuesData) + 1
              /\ recordSource'[Len(recordSource')].key = repoIssues[issueIdx]]_vars

\* C9 witness: with the default primary label and no additional label, the
\* issue labelled "Accessibility" has a record and the issue labelled "A11y"
\* has been examined and passed over
C9_Witness ==
    /\ primaryLabel = DEFAULT_PRIMARY_LABEL
    /\ additionalLabels = << >>
    /\ \E i \in DOMAIN recordSource :
           IssueOf(recordSource[i].key).labels = << LabelAccessibilityMixed >>
    /\ 4 \in processedIssueIds
    /\ \A i \in DOMAIN recordSource : recordSource[i].id # 4

TextSc143 == << "S", "C", " ", "1", ".", "4", ".", "3" >>
Text143 == << "1", ".", "4", ".", "3" >>

\* The scan is over, the organization had one repository, and its listing
\* held one issue: not a pull request, labelled "accessibility" (the primary
\* label), with the body "see SC 1.4.3" and no comments
C10_Scenario ==
    /\ pc \in { "write", "finished" }
    /\ primaryLabel = DEFAULT_PRIMARY_LABEL
    /\ repositories = << 1 >>
    /\ Len(repoIssues) = 1
    /\ LET issue == IssueOf(repoIssues[1])
       IN  /\ ~issue.pull_request
           /\ issue.labels = << LabelAccessibility >>
           /\ issue.body = TextSeeSc
           /\ issue.comments = 0

\* C10 as claimed: in the scenario there is exactly one record, its "WCAG SC"
\* field is "SC 1.4.3" and its "Last Commenter" field is null
C10_AsClaimed ==
    C10_Scenario =>
        /\ Len(issuesData) = 1
        /\ issuesData[1].WCAG_SC = TextSc143
        /\ issuesData[1].Last_Commenter = Null

\* C10: in the scenario there is exactly one record; its "WCAG SC" field is
\* "SC 1.4.3; 1.4.3", the two tokens of the body, followed by nothing but the
\* further tokens of the title, and its "Last Commenter" field is null
C10_EndToEnd ==
    C10_Scenario =>
        LET field == issuesData[1].WCAG_SC
            both  == TextSc143 \o << ";", " " >> \o Text143
            more  == findWcagScInText(IssueOf(repoIssues[1]).title)
        IN  /\ Len(issuesData) = 1
            /\ field # Null
            /\ more = << >> => field = both
            /\ more # << >> => field = both \o << ";", " " >> \o join(more, << ";", " " >>)
            /\ issuesData[1].Last_Commenter = Null

\* C10 witness: the scenario with the issue titled "Menu", the file written
C10_Witness ==
    /\ C10_Scenario
    /\ pc = "finished"
    /\ csvWritten
    /\ Len(csvRows) = 1
    /\ IssueOf(repoIssues[1]).title = TextMenu

(***************************************************************************)
(* Properties of the fields of a record                                    *)
(***************************************************************************)
\* The tokens of a "WCAG SC" field: the pieces between the separators "; "
RECURSIVE SplitField(_)
SplitField(field) ==
    IF \A i \in DOMAIN field : field[i] # ";" THEN << field >>
    ELSE LET c == CHOOSE i \in DOMAIN field :
                      field[i] = ";" /\ \A k \in 1 .. (i - 1) : field[k] # ";"
         IN  << SubSeq(field, 1, c - 1) >> \o SplitField(SubSeq(field, c + 2, Len(field)))

\* The set of tokens findWcagScInText extracts from the title, the body and
\* the body of every comment of the given listing
TokenUnion(issue, comments) ==
    Range(findWcagScInText(issue.title)) \cup Range(findWcagScInText(issue.body))
        \cup UNION { Range(findWcagScInText(CommentOf(comments[i]).body)) : i \in DOMAIN comments }

\* The field renders the set: null for the empty set, else its tokens joined
\* with "; ", each once
RendersSet(field, tokens) ==
    IF tokens = { } THEN field = Null
    ELSE /\ field # Null
         /\ Range(SplitField(field)) = tokens
         /\ Len(SplitField(field)) = Cardinality(tokens)

TextNA == << "N", "/", "A" >>

\* The author of the last comment of a listing, the unknown marker if it has none
LastAuthor(listing) ==
    IF CommentOf(listing[Len(listing)]).user = Null THEN TextNA
    ELSE CommentOf(listing[Len(listing)]).user

\* C12 as claimed: the record of an issue with a nonzero comment count carries
\* the author of the last comment the provider holds for the issue (the
\* unknown marker if that comment has no author), the record of an issue
\* with zero comments carries null
C12_AsClaimed ==
    /\ [][pc = "returned" /\ caller = "comments" =>
              /\ Held # << >>
              /\ issuesData'[Len(issuesData')].Last_Commenter = LastAuthor(Held)]_vars
    /\ [][FirstSeen /\ Len(issuesData') = Len(issuesData) + 1 =>
              /\ CurrentIssue.comments = 0
              /\ issuesData'[Len(issuesData')].Last_Commenter = Null]_vars

\* C12: the record of an issue with a nonzero comment count carries the author
\* of the last comment the comment listing returned (the unknown marker if
\* that comment has no author) and null if the listing returned no comment;
\* a listing that met no error returned the comments the provider holds, in
\* its order; the record of an issue with zero comments carries null
C12_LastCommenter ==
    /\ [][pc = "returned" /\ caller = "comments" =>
              /\ CurrentIssue.comments > 0
              /\ Len(issuesData') = Len(issuesData) + 1
              /\ result # << >> =>
                     issuesData'[Len(issuesData')].Last_Commenter = LastAuthor(result)
              /\ result = << >> => issuesData'[Len(issuesData')].Last_Commenter = Null
              /\ lastError = NoError => result = Held]_vars
    /\ [][FirstSeen /\ Len(issuesData') = Len(issuesData) + 1 =>
              /\ CurrentIssue.comments = 0
              /\ issuesData'[Len(issuesData')].Last_Commenter = Null]_vars

\* C12 witness: two records of issues with a nonzero comment count: one built
\* from the comments of "bob" and then of a comment without author, carrying
\* the unknown marker, and one whose comment listing returned nothing,
\* carrying null
C12_Witness ==
    /\ pc = "issue_loop"
    /\ caller = "comments"
    /\ Len(issuesData) = 2
    /\ IssueOf(recordSource[1].key).comments > 0
    /\ issuesData[1].Last_Commenter = TextNA
    /\ IssueOf(recordSource[2].key).comments > 0
    /\ result = << >>
    /\ issuesData[2].Last_Commenter = Null

(***************************************************************************)
(* Properties of the run as a whole                                        *)
(***************************************************************************)
\* The repository listing has been taken over and holds no repository
NoRepositories == repoIdx >= 1 /\ repositories = << >>

\* C13: when the repository listing returned holds no repository, the scan is
\* over: the only listing ever asked for is the repository listing, nothing is
\* in flight, there is no record and no output file, and no step follows
C13_NoRepositoriesNoOutput ==
    /\ [](NoRepositories =>
              /\ pc = "finished" /\ exitCode = -1
              /\ caller = "repos"
              /\ inflight = { }
              /\ issuesData = << >>
              /\ ~csvWritten /\ csvRows = << >>)
    /\ [][pc = "returned" /\ caller = "repos" /\ result = << >> =>
              pc' = "finished" /\ repositories' = << >>]_vars
    /\ [][NoRepositories => UNCHANGED vars]_vars

\* C13 witness: the first page of the repository listing failed with an error
\* that is not fatal, and the scan is over without a file
C13_Witness ==
    /\ NoRepositories
    /\ lastError.status = 404
    /\ requested = << 1 >>
    /\ pc = "finished"
    /\ ~csvWritten

\* C14: without a token the script does nothing but exit with code 1: no
\* listing is ever started, no request is sent, nothing is written, whatever
\* the command line holds (the help flag included)
C14_NoTokenIsFatal ==
    /\ [](GITHUB_TOKEN = Null =>
              /\ pc \in { "startup", "exited" }
              /\ pc = "exited" => exitCode = 1
              /\ caller = "none"
              /\ requested = << >> /\ inflight = { }
              /\ ~csvWritten)
    /\ [][GITHUB_TOKEN = Null /\ pc = "startup" => pc' = "exited" /\ exitCode' = 1]_vars
    /\ [][GITHUB_TOKEN = Null /\ pc = "exited" => UNCHANGED vars]_vars

\* C14 witness: no token, an organization and the help flag on the command
\* line, and the script has exited with code 1
C14_Witness ==
    /\ GITHUB_TOKEN = Null
    /\ argv.r # Null
    /\ argv.h
    /\ pc = "exited"
    /\ exitCode = 1

\* C15: at most one request is outstanding; the script waits exactly while one
\* is; a request is sent only when none is outstanding, and the sender then
\* waits for its answer; until the answer (data or error) has been handled
\* nothing else moves
C15_OneRequestAtATime ==
    /\ [](/\ Cardinality(inflight) <= 1
          /\ inflight # { } <=> pc = "await")
    /\ [][requested' # requested /\ requested' # << >> =>
              /\ inflight = { }
              /\ Cardinality(inflight') = 1
              /\ pc' = "await"]_vars
    /\ [][inflight # { } =>
              /\ inflight' = { }
              /\ UNCHANGED << requested, loopVars, outputVars >>]_vars

\* C15 witness: the second request of a comment listing is outstanding, the
\* first has been answered with a full page
C15_Witness ==
    /\ pc = "await"
    /\ caller = "comments"
    /\ requested = << 1, 1 >>
    /\ Len(allItems) = 100
    /\ Cardinality(inflight) = 1

\* C16: a step leaves the output collection as it is or appends one record at
\* its end, the record of the issue the loops are at, and the loops only move
\* forward: the repository loop never goes back, and within a repository the
\* issue loop never does; so the records are in repository listing order and,
\* within a repository, in issue listing order, and the rows of the file are
\* the records in that order
C16_AppendOnly ==
    /\ [][\/ issuesData' = issuesData
          \/ /\ Len(issuesData') = Len(issuesData) + 1
             /\ SubSeq(issuesData', 1, Len(issuesData)) = issuesData
             /\ recordSource' = Append(recordSource,
                                       [ key  |-> repoIssues[issueIdx],
                                         id   |-> IssueOf(repoIssues[issueIdx]).id,
                                         repo |-> repositories[repoIdx] ])
             /\ issuesData'[Len(issuesData')].Project = RepoOf(repositories[repoIdx]).name
             /\ issuesData'[Len(issuesData')].Issue_Title = IssueOf(repoIssues[issueIdx]).title
             /\ issueIdx' = issueIdx + 1 /\ repoIdx' = repoIdx]_vars
    /\ [][/\ repoIdx' >= repoIdx
          /\ pc = "issue_loop" /\ repoIdx' = repoIdx => issueIdx' >= issueIdx
          /\ repoIdx >= 1 => repositories' = repositories
          /\ pc = "issue_loop" /\ pc' = "issue_loop" => repoIssues' = repoIssues]_vars
    /\ [](\A i, j \in DOMAIN recordSource :
              i < j => \E a, b \in DOMAIN repositories :
                           /\ a <= b
                           /\ repositories[a] = recordSource[i].repo
                           /\ repositories[b] = recordSource[j].repo)
    /\ [](csvWritten => csvRows = issuesData)

\* C16 witness: the file holds three rows: two from issues of the first
\* repository, in the order of its listing, then one from the second
C16_Witness ==
    /\ csvWritten
    /\ Len(csvRows) = 3
    /\ recordSource[1].repo = 1
    /\ recordSource[2].repo = 1
    /\ recordSource[3].repo = 2
    /\ csvRows[1].Project # csvRows[3].Project

(***************************************************************************)
(* Properties of findWcagScInText                                          *)
(***************************************************************************)
\* A call of findWcagScInText has returned
AfterCall == scanPc = "idle" /\ calls > 0

TextAA == << "A", "A" >>

\* The text holds "WCAG 2.1 AA" with no further letter A, of either case,
\* directly behind it
HoldsWcagLevelAlone(t) ==
    \E i \in 1 .. Len(t) :
        /\ i + 10 <= Len(t)
        /\ SubSeq(t, i, i + 10) = TextWcagLevel
        /\ i + 11 <= Len(t) => t[i + 11] \notin { "A", "a" }

\* C17 as claimed: the value returned for a text that contains "WCAG 2.1 AA"
\* contains the tokens "WCAG 2.1 AA" and "AA"
C17_AsClaimed ==
    AfterCall /\ ~IsFalsy(text) /\ includes(text, TextWcagLevel) =>
        /\ arrayIncludes(returned, TextWcagLevel)
        /\ arrayIncludes(returned, TextAA)

\* C17: the value returned for a text that contains "WCAG 2.1 AA" contains the
\* token "AA", and the token "WCAG 2.1 AA" too if the text holds it with no
\* further letter A directly behind it; the patterns are scanned one after
\* the other, each from the start of the text, whatever the ones before it
\* have found
C17_OverlapNotSuppressed ==
    /\ [](AfterCall /\ ~IsFalsy(text) /\ includes(text, TextWcagLevel) =>
              /\ arrayIncludes(returned, TextAA)
              /\ HoldsWcagLevelAlone(text) => arrayIncludes(returned, TextWcagLevel))
    /\ [][scanPc = "while" /\ scanPc' = "forEach" =>
              pattern' = pattern + 1 /\ UNCHANGED text]_vars
    /\ [][scanPc = "forEach" /\ scanPc' = "while" =>
              lastIndex'[pattern] = 0 /\ UNCHANGED << text, foundSc >>]_vars

\* C17 witness: "see WCAG 2.1 AA." has been scanned and both tokens returned
C17_Witness ==
    /\ AfterCall
    /\ text = << "s", "e", "e", " " >> \o TextWcagLevel \o << "." >>
    /\ arrayIncludes(returned, TextWcagLevel)
    /\ arrayIncludes(returned, TextAA)

\* C18: a call with an absent or an empty text returns the empty list at once:
\* no pattern is scanned and no pattern object is touched
C18_AbsentTextIsEmpty ==
    /\ [](AfterCall /\ IsFalsy(text) => returned = << >>)
    /\ [][scanPc = "idle" /\ calls' = calls + 1 /\ IsFalsy(text') =>
              /\ scanPc' = "idle"
              /\ returned' = << >>
              /\ UNCHANGED lastIndex]_vars
    /\ [](scanPc # "idle" => ~IsFalsy(text))

\* C18 witness: the second call, with an absent text, has returned the empty
\* list
C18_Witness ==
    /\ AfterCall
    /\ calls = 2
    /\ text = Null
    /\ returned = << >>

\* C19: the value a call returns is the one the text alone determines,
\* whichever texts were scanned before; the scan of a pattern begins with its
\* lastIndex at 0, and between calls the lastIndex of every pattern is 0
C19_NoStateAcrossCalls ==
    /\ [](AfterCall => returned = findWcagScInText(text))
    /\ [](scanPc = "idle" => \A p \in WCAG_PATTERNS : lastIndex[p] = 0)
    /\ [][scanPc = "forEach" /\ scanPc' = "while" => lastIndex'[pattern] = 0]_vars

\* C19 witness: the second call, for "see SC 1.4.3", has returned after a first
\* call for another text that left tokens
C19_Witness ==
    /\ AfterCall
    /\ calls = 2
    /\ text = TextSeeSc
    /\ returned = << TextSc143, Text143 >>

(***************************************************************************)
(* Properties of the comment listings                                      *)
(***************************************************************************)
\* C20: a comment listing is started only at an issue that is no pull request,
\* whose identifier has not been processed, which the inclusion rule includes
\* and whose comment count is not zero, and it is the listing of that issue;
\* every request for a page of comments belongs to such a listing, started
\* at the issue the loop is still at
C20_CommentsOnlyForIncluded ==
    /\ [][pc \notin { "fetch", "await" } /\ pc' = "fetch" /\ caller' = "comments" =>
              /\ AtIssue
              /\ ~CurrentIssue.pull_request
              /\ CurrentIssue.id \notin processedIssueIds
              /\ InclusionRule(CurrentIssue)
              /\ CurrentIssue.comments > 0
              /\ owner' = repoIssues[issueIdx]
              /\ UNCHANGED << repoIssues, issueIdx >>]_vars
    /\ [](\A req \in inflight :
              req.kind = "comments" =>
                  /\ caller = "comments"
                  /\ owner = repoIssues[issueIdx]
                  /\ ~IssueOf(owner).pull_request
                  /\ InclusionRule(IssueOf(owner))
                  /\ IssueOf(owner).comments > 0
                  /\ IssueOf(owner).id \in processedIssueIds
                  /\ \A i \in DOMAIN recordSource : recordSource[i].id # IssueOf(owner).id)

\* C20 witness: the loop has passed an issue with a comment that the rule
\* does not include, without a request, and the first page of the comments of
\* the included issue behind it is being requested
C20_Witness ==
    /\ pc = "await"
    /\ caller = "comments"
    /\ Len(repoIssues) = 2
    /\ issueIdx = 2
    /\ IssueOf(repoIssues[1]).comments > 0
    /\ ~InclusionRule(IssueOf(repoIssues[1]))
    /\ IssueOf(repoIssues[1]).id \in processedIssueIds
    /\ owner = repoIssues[2]
    /\ \E req \in inflight : req.kind = "comments" /\ req.page = 1

(***************************************************************************)
(* Properties of the run as a whole: termination                           *)
(***************************************************************************)
\* The run is over: the process has exited, or the scan has returned past the
\* last repository of the organization listing
Terminated ==
    \/ pc = "exited"
    \/ pc = "finished" /\ repoIdx > Len(repositories)

\* C21: every run eventually is over: by an exit (at startup, or on rate-limit
\* exhaustion) or by the completion of the scan, every repository visited
C21_ScanTerminates == <>Terminated

\* C22: once a request has failed with rate-limit exhaustion there is no
\* output file and none is written later, whatever records have been built;
\* the file is written only by the step behind the loop over the
\* repositories, which an exit never reaches
C22_RateLimitLeavesNoFile ==
    /\ [](RateLimitExhausted => ~csvWritten /\ csvRows = << >> /\ pc = "exited")
    /\ [][RateLimitExhausted => UNCHANGED << csvWritten, csvRows, pc >>]_vars
    /\ [][csvWritten' # csvWritten \/ csvRows' # csvRows =>
              /\ pc = "write"
              /\ repoIdx > Len(repositories)
              /\ lastError.status # 403 \/ lastError.remaining # "0"]_vars

\* C22 witness: rate-limit exhaustion on the issue listing of the second
\* repository, with a record built from the first: the process has exited
\* and there is no file
C22_Witness ==
    /\ RateLimitExhausted
    /\ pc = "exited"
    /\ caller = "issues"
    /\ repoIdx = 2
    /\ Len(issuesData) >= 1
    /\ ~csvWritten

(***************************************************************************)
(* The deduplication key                                                   *)
(***************************************************************************)

\* The comment listing of the issue under examination is under way
CommentsPending == pc \in {"fetch", "await", "returned"} /\ caller = "comments"

\* C23: the step that examines a non-pull-request issue whose identifier is
\* not yet marked marks it, included or not, and nothing else marks one; a
\* non-pull-request issue whose identifier is marked is passed over without a
\* record, a comment listing or a change of the marks; a record is appended
\* only for the issue whose examination marked the identifier: at that step,
\* or when its comment listing returns, the identifier marked and still
\* without a record all the while
C23_MarkedAtFirstExamination ==
    /\ [][FirstSeen =>
              processedIssueIds' = processedIssueIds \cup { CurrentIssue.id }]_vars
    /\ [][processedIssueIds' # processedIssueIds => FirstSeen]_vars
    /\ [][AtIssue /\ ~CurrentIssue.pull_request
                  /\ CurrentIssue.id \in processedIssueIds =>
              /\ issueIdx' = issueIdx + 1
              /\ pc' = pc
              /\ UNCHANGED << processedIssueIds, issuesData, recordSource, inflight >>]_vars
    /\ [](CommentsPending =>
              /\ issueIdx \in DOMAIN repoIssues
              /\ CurrentIssue.id \in processedIssueIds
              /\ \A i \in DOMAIN recordSource : recordSource[i].id # CurrentIssue.id)
    /\ [][Len(issuesData') > Len(issuesData) =>
              /\ FirstSeen \/ (CommentsPending /\ pc = "returned")
              /\ recordSource' = Append(recordSource,
                                        [ key |-> repoIssues[issueIdx],
                                          id |-> CurrentIssue.id,
                                          repo |-> repositories[repoIdx] ])]_vars

\* C23 witness: a listing of two non-pull-request issues with one identifier,
\* the first excluded by the inclusion rule and the second included, has been
\* gone through: the identifier is marked and has no record
C23_Witness ==
    /\ pc = "issue_loop"
    /\ Len(repoIssues) = 2
    /\ issueIdx = 3
    /\ ~IssueOf(repoIssues[1]).pull_request
    /\ ~IssueOf(repoIssues[2]).pull_request
    /\ IssueOf(repoIssues[1]).id = IssueOf(repoIssues[2]).id
    /\ ~IsIncluded(IssueOf(repoIssues[1]), primaryLabel, additionalLabels)
    /\ IsIncluded(IssueOf(repoIssues[2]), primaryLabel, additionalLabels)
    /\ IssueOf(repoIssues[1]).id \in processedIssueIds
    /\ \A i \in DOMAIN recordSource : recordSource[i].id # IssueOf(repoIssues[1]).id

=============================================================================
